---- MODULE Spec2Model ----
(***************************************************************************)
(* brother_ql_web: a bottle application that turns form fields into a      *)
(* label context, renders a label image and hands it to the brother_ql     *)
(* raster builder and transport backend.                                   *)
(*                                                                         *)
(* Python values in this model:                                            *)
(*   str   a sequence of one-character strings, "50" is <<"5", "0">>       *)
(*   None  the value None below, different from every str                  *)
(*   int   an integer                                                      *)
(*   dict  a function; a missing key is a key outside its DOMAIN           *)
(* A call that raises yields a record whose exc field names the exception  *)
(* class; exc = "" means the call returned.                                *)
(***************************************************************************)
EXTENDS Integers, Sequences, FiniteSets, TLC

VARIABLES
    pc,          \* "boot" before main() has run, "serving" inside run(), "exited"
    config_json, \* the configuration file, as read when the module is loaded
    CONFIG,      \* the global CONFIG (the parts main() and the handlers read)
    FONTS,       \* the global FONTS: family -> style -> path
    DEBUG,       \* the global DEBUG
    Code128,     \* os.environ.get("Code128")
    dmtx_png,    \* contents of the file /tmp/dmtx.png
    handled,     \* number of requests served so far
    last         \* what the most recent request was and what its handler did

vars == <<pc, config_json, CONFIG, FONTS, DEBUG, Code128, dmtx_png, handled, last>>

\* Requests served in one run of the model.
MaxRequests == 2

None == <<"None">>

----------------------------------------------------------------------------
(* str methods used by the program *)

Whitespace == {" "}

Digits == {"0", "1", "2", "3", "4", "5", "6", "7", "8", "9"}

DigitVal(c) ==
    CASE c = "0" -> 0 [] c = "1" -> 1 [] c = "2" -> 2 [] c = "3" -> 3
      [] c = "4" -> 4 [] c = "5" -> 5 [] c = "6" -> 6 [] c = "7" -> 7
      [] c = "8" -> 8 [] c = "9" -> 9

\* s.rfind(c) as a 1-based index, 0 when c does not occur
RFind(s, c) ==
    LET hits == {i \in 1..Len(s) : s[i] = c}
    IN  IF hits = {} THEN 0 ELSE CHOOSE i \in hits : \A j \in hits : j <= i

\* s.rpartition(c): <<head, sep, tail>>, and <<"", "", s>> when c does not occur
rpartition(s, c) ==
    LET i == RFind(s, c)
    IN  IF i = 0 THEN << <<>>, <<>>, s >>
        ELSE << SubSeq(s, 1, i - 1), <<c>>, SubSeq(s, i + 1, Len(s)) >>

RECURSIVE lstrip(_)
lstrip(s) ==
    IF s # <<>> /\ Head(s) \in Whitespace THEN lstrip(Tail(s)) ELSE s

RECURSIVE rstrip(_, _)
rstrip(s, chars) ==
    IF s # <<>> /\ s[Len(s)] \in chars THEN rstrip(SubSeq(s, 1, Len(s) - 1), chars)
    ELSE s

strip(s) == lstrip(rstrip(s, Whitespace))

\* sub in s
Contains(s, sub) ==
    \E i \in 0..(Len(s) - Len(sub)) : SubSeq(s, i + 1, i + Len(sub)) = sub

\* int(s) and float(s) of a str made of decimal digits return its value; any
\* other str the model sends raises ValueError.
IsNumeral(s) == s # <<>> /\ \A i \in 1..Len(s) : s[i] \in Digits

RECURSIVE NumeralValue(_)
NumeralValue(s) ==
    IF s = <<>> THEN 0
    ELSE 10 * NumeralValue(SubSeq(s, 1, Len(s) - 1)) + DigitVal(s[Len(s)])

Returned(v) == [exc |-> "", v |-> v]

Raised(e) == [exc |-> e, v |-> 0]

int_str(s) == IF IsNumeral(s) THEN Returned(NumeralValue(s)) ELSE Raised("ValueError")

\* d.get(key, default) for a str-valued default (or None)
form_get(d, key, default) == IF key \in DOMAIN d THEN d[key] ELSE default

\* int_field with the default dropped: int(d.get(key)) raises on None
int_field_no_default(d, key, default) ==
    IF key \in DOMAIN d THEN int_str(d[key]) ELSE Raised("TypeError")

\* int(d.get(key, default)) and float(d.get(key, default)) for an int default:
\* int() and float() of the default return it, of a form value parse it
int_field(d, key, default) ==
    IF key \in DOMAIN d THEN int_str(d[key]) ELSE Returned(default)

\* isinstance(exc, LookupError): KeyError is a subclass of LookupError
IsLookupError(e) == e \in {"LookupError", "KeyError"}

----------------------------------------------------------------------------
(* brother_ql.devicedependent *)

ENDLESS_LABEL == "ENDLESS_LABEL"

DIE_CUT_LABEL == "DIE_CUT_LABEL"

ROUND_DIE_CUT_LABEL == "ROUND_DIE_CUT_LABEL"

\* label_type_specs, six of its entries: kind and dots_printable
label_type_specs ==
    (<<"5", "0">> :> [kind |-> ENDLESS_LABEL, dots_printable |-> <<554, 0>>])
    @@ (<<"6", "2">> :> [kind |-> ENDLESS_LABEL, dots_printable |-> <<696, 0>>])
    @@ (<<"6", "2", "r", "e", "d">> :>
            [kind |-> ENDLESS_LABEL, dots_printable |-> <<696, 0>>])
    @@ (<<"1", "7", "x", "5", "4">> :>
            [kind |-> DIE_CUT_LABEL, dots_printable |-> <<165, 566>>])
    @@ (<<"5", "2", "x", "2", "9">> :>
            [kind |-> DIE_CUT_LABEL, dots_printable |-> <<578, 271>>])
    @@ (<<"d", "2", "4">> :>
            [kind |-> ROUND_DIE_CUT_LABEL, dots_printable |-> <<236, 236>>])

----------------------------------------------------------------------------
(* get_label_context *)

DEFAULT_font_size == 40

DEFAULT_margin == 10

DEFAULT_threshold == 70

DEFAULT_margin_percent == 25

DEFAULT_label_size == <<"5", "0">>

DEFAULT_align == <<"c", "e", "n", "t", "e", "r">>

standard == <<"s", "t", "a", "n", "d", "a", "r", "d">>

rotated == <<"r", "o", "t", "a", "t", "e", "d">>

red == <<"r", "e", "d">>

NoContext == [none |-> TRUE]

ContextRaised(e, m) == [exc |-> e, msg |-> m, ctx |-> NoContext]

ContextReturned(c) == [exc |-> "", msg |-> "", ctx |-> c]

\* int(font_size * (float(percent) / 100.0)). The model sends percentages that
\* are multiples of 25 and font sizes >= 0, for which the float product is exact
\* and int() truncates as integer division does.
margin_dots(font_size, percent) == (font_size * percent) \div 100

\* get_font_path: FONTS[family][style], the configured default font when either
\* name is None; KeyError becomes LookupError
get_font_path(font_family_name, font_style_name) ==
    LET useDefault == font_family_name = None \/ font_style_name = None
        configured == CONFIG.LABEL.DEFAULT_FONTS
    IN  IF useDefault /\ configured.type # "dict"
        THEN Raised("TypeError")     \* list["family"], None["family"]: not a KeyError
        ELSE LET family == IF useDefault THEN configured.items[1].family
                           ELSE font_family_name
                 style  == IF useDefault THEN configured.items[1].style
                           ELSE font_style_name
             IN  IF family \in DOMAIN FONTS /\ style \in DOMAIN FONTS[family]
                 THEN Returned(FONTS[family][style])
                 ELSE Raised("LookupError")

\* the try of get_label_dimensions: label_type_specs[label_size]
get_label_dimensions(label_size) ==
    IF label_size \in DOMAIN label_type_specs
    THEN Returned(label_type_specs[label_size].dots_printable)
    ELSE Raised("LookupError")

\* oriented_dimensions without the swap of lines 121-122
oriented_dimensions_as_listed(dots, orientation) ==
    IF orientation = rotated THEN <<dots[2], dots[1]>> ELSE <<dots[1], dots[2]>>

\* lines 120-125: the longer side is the width, and "rotated" swaps the two
oriented_dimensions(dots, orientation) ==
    LET w0 == dots[1]
        h0 == dots[2]
        w1 == IF h0 > w0 THEN h0 ELSE w0
        h1 == IF h0 > w0 THEN w0 ELSE h0
    IN  IF orientation = rotated THEN <<h1, w1>> ELSE <<w1, h1>>

get_label_context(d) ==
    IF "font_family" \notin DOMAIN d
    THEN ContextRaised("AttributeError", "'NoneType' object has no attribute 'rpartition'")
    ELSE
    LET font_family   == strip(rpartition(d["font_family"], "(")[1])
        font_style    == rstrip(rpartition(d["font_family"], "(")[3], {")"})
        font_size     == int_field(d, "font_size", DEFAULT_font_size)
        label_size    == form_get(d, "label_size", DEFAULT_label_size)
        margin        == int_field(d, "margin", DEFAULT_margin)
        threshold     == int_field(d, "threshold", DEFAULT_threshold)
        margin_top    == int_field(d, "margin_top", DEFAULT_margin_percent)
        margin_bottom == int_field(d, "margin_bottom", DEFAULT_margin_percent)
        margin_left   == int_field(d, "margin_left", DEFAULT_margin_percent)
        margin_right  == int_field(d, "margin_right", DEFAULT_margin_percent)
        orientation   == form_get(d, "orientation", standard)
        font_path     == get_font_path(font_family, font_style)
        dots          == get_label_dimensions(label_size)
        size          == oriented_dimensions(dots.v, orientation)
    IN  IF font_size.exc # "" THEN ContextRaised(font_size.exc, "invalid literal for int()")
        ELSE IF label_size \notin DOMAIN label_type_specs
        THEN ContextRaised("KeyError", "label_size")
        ELSE IF margin.exc # "" THEN ContextRaised(margin.exc, "invalid literal for int()")
        ELSE IF threshold.exc # ""
        THEN ContextRaised(threshold.exc, "invalid literal for int()")
        ELSE IF \E m \in {margin_top, margin_bottom, margin_left, margin_right} : m.exc # ""
        THEN ContextRaised("ValueError", "could not convert string to float")
        ELSE IF font_path.exc # ""
        THEN ContextRaised(font_path.exc, "Couln't find the font & style")
        ELSE IF dots.exc # "" THEN ContextRaised(dots.exc, "Unknown label_size")
        ELSE ContextReturned(
            [text          |-> form_get(d, "text", None),
             font_size     |-> font_size.v,
             font_family   |-> font_family,
             font_style    |-> font_style,
             label_size    |-> label_size,
             kind          |-> label_type_specs[label_size].kind,
             margin        |-> margin.v,
             threshold     |-> threshold.v,
             align         |-> form_get(d, "align", DEFAULT_align),
             orientation   |-> orientation,
             margin_top    |-> margin_dots(font_size.v, margin_top.v),
             margin_bottom |-> margin_dots(font_size.v, margin_bottom.v),
             margin_left   |-> margin_dots(font_size.v, margin_left.v),
             margin_right  |-> margin_dots(font_size.v, margin_right.v),
             grocycode     |-> form_get(d, "grocycode", None),
             product       |-> form_get(d, "product", None),
             duedate       |-> form_get(d, "due_date", None),
             battery       |-> form_get(d, "battery", None),
             chore         |-> form_get(d, "chore", None),
             fill_color    |-> IF Contains(label_size, red) THEN <<255, 0, 0>>
                               ELSE <<0, 0, 0>>,
             font_path     |-> font_path.v,
             width         |-> size[1],
             height        |-> size[2]])

----------------------------------------------------------------------------
(* the renderers *)

\* bool(x) of a str or None
truthy(x) == x # None /\ x # <<>>

NoImage == [renderer |-> "None"]

NoFile == [format |-> "missing", code |-> <<>>]

RenderRaised(e, file, logs) == [exc |-> e, im |-> NoImage, file |-> file, logs |-> logs]

Rendered(im, file, logs) == [exc |-> "", im |-> im, file |-> file, logs |-> logs]

\* create_label_im. An image is named by the arguments its pixels are drawn
\* from; canvas is (width, height) of the context, which is the image's size on a
\* die-cut label (on an endless label one side follows the text's extent).
create_label_im(ctx, file) ==
    IF ctx.text = None
    THEN RenderRaised("AttributeError", file, {})             \* text.split, line 138
    ELSE IF ctx.orientation \notin {standard, rotated}
    THEN RenderRaised("UnboundLocalError", file, {})          \* horizontal_offset, line 168
    ELSE Rendered(
        [renderer    |-> "create_label_im",
         text        |-> ctx.text,
         font        |-> <<ctx.font_path, ctx.font_size>>,
         fill_color  |-> ctx.fill_color,
         align       |-> ctx.align,
         orientation |-> ctx.orientation,
         margins     |-> <<ctx.margin_top, ctx.margin_bottom,
                           ctx.margin_left, ctx.margin_right>>,
         size        |-> <<ctx.width, ctx.height>>], file, {})

\* lines 183-189 and 274-280: the text of a grocy label
grocy_text(ctx) ==
    IF truthy(ctx.product) THEN ctx.product
    ELSE IF truthy(ctx.chore) THEN ctx.chore
    ELSE ctx.battery

\* create_label_grocy_1d pasting /tmp/dmtx.png as it was when the request began
create_label_grocy_1d_stale(ctx, file) ==
    IF ctx.grocycode = None
    THEN Rendered(NoImage, file, {"error"})                    \* Code128(None) raises
    ELSE
    LET written  == [format |-> "code128", code |-> ctx.grocycode]   \* barcode.save
        isStd    == ctx.orientation = standard
        mleft    == IF isStd THEN ctx.margin_left ELSE ctx.margin_bottom
        mright   == IF isStd THEN ctx.margin_right ELSE ctx.margin_top
        mtop     == IF isStd THEN ctx.margin_top ELSE ctx.margin_left
        mbottom  == IF isStd THEN ctx.margin_bottom ELSE ctx.margin_right
        width    == IF isStd THEN ctx.width ELSE 700
        height   == mtop + mbottom + 100 + 52 - 30
                    + (IF truthy(ctx.duedate) THEN 26 ELSE 0)
        barcode  == file
        text     == grocy_text(ctx)
    IN  IF text = None
        THEN Rendered(NoImage, written, {"error"})             \* draw.text(None) raises
        ELSE Rendered(
            [renderer   |-> "create_label_grocy_1d",
             text       |-> text,
             barcode    |-> barcode,
             barsize    |-> <<width - mleft - mright, 100>>,
             duedate    |-> ctx.duedate,
             font       |-> <<ctx.font_path, 40>>,
             fill_color |-> ctx.fill_color,
             offset     |-> <<mleft, mtop>>,
             size       |-> IF ctx.orientation = rotated THEN <<height, width>>
                            ELSE <<width, height>>], written, {})

\* create_label_grocy_1d: writes the barcode to /tmp/dmtx.png, reads it back and
\* pastes it; any exception is logged and None is returned
create_label_grocy_1d(ctx, file) ==
    IF ctx.grocycode = None
    THEN Rendered(NoImage, file, {"error"})                    \* Code128(None) raises
    ELSE
    LET written  == [format |-> "code128", code |-> ctx.grocycode]   \* barcode.save
        isStd    == ctx.orientation = standard
        mleft    == IF isStd THEN ctx.margin_left ELSE ctx.margin_bottom
        mright   == IF isStd THEN ctx.margin_right ELSE ctx.margin_top
        mtop     == IF isStd THEN ctx.margin_top ELSE ctx.margin_left
        mbottom  == IF isStd THEN ctx.margin_bottom ELSE ctx.margin_right
        width    == IF isStd THEN ctx.width ELSE 700
        height   == mtop + mbottom + 100 + 52 - 30
                    + (IF truthy(ctx.duedate) THEN 26 ELSE 0)
        barcode  == written                                    \* Image.open, line 229
        text     == grocy_text(ctx)
    IN  IF text = None
        THEN Rendered(NoImage, written, {"error"})             \* draw.text(None) raises
        ELSE Rendered(
            [renderer   |-> "create_label_grocy_1d",
             text       |-> text,
             barcode    |-> barcode,
             barsize    |-> <<width - mleft - mright, 100>>,
             duedate    |-> ctx.duedate,
             font       |-> <<ctx.font_path, 40>>,
             fill_color |-> ctx.fill_color,
             offset     |-> <<mleft, mtop>>,
             size       |-> IF ctx.orientation = rotated THEN <<height, width>>
                            ELSE <<width, height>>], written, {})

\* create_label_grocy: writes the datamatrix to /tmp/dmtx.png and never reads it.
\* The comparison text_lines.count > 1 of line 335 compares a bound method with
\* an int, which raises TypeError, so no call returns an image.
create_label_grocy(ctx, file) ==
    IF ctx.grocycode = None
    THEN RenderRaised("AttributeError", file, {})              \* grocycode.encode
    ELSE
    LET written == [format |-> "datamatrix", code |-> ctx.grocycode]  \* line 289
    IN  IF grocy_text(ctx) = None
        THEN RenderRaised("AttributeError", written, {})       \* textwrap.fill(None)
        ELSE RenderRaised("TypeError", written, {})            \* line 335

----------------------------------------------------------------------------
(* brother_ql: create_label and the backend *)

NoData == [none |-> TRUE]

\* rotate of lines 419-422 and 483-486
rotate_of(ctx) ==
    IF ctx.kind = ENDLESS_LABEL
    THEN (IF ctx.orientation = standard THEN "0" ELSE "90")
    ELSE "auto"

\* brother_ql.create_label: an image that is no image raises; a die-cut label
\* takes only an image of its printable size, turned by 90 degrees under
\* rotate = "auto" when that makes it fit; an endless label is resized to fit
create_label(im, ctx, rotate) ==
    LET dots   == label_type_specs[ctx.label_size].dots_printable
        turned == IF rotate = "auto" /\ im.size = <<dots[2], dots[1]>>
                  THEN <<im.size[2], im.size[1]>> ELSE im.size
    IN  IF im = NoImage THEN Raised("NotImplementedError")
        ELSE IF ctx.kind # ENDLESS_LABEL /\ turned # dots THEN Raised("ValueError")
        ELSE Returned([im         |-> im,
                       label_size |-> ctx.label_size,
                       red        |-> Contains(ctx.label_size, red),
                       threshold  |-> ctx.threshold,
                       cut        |-> TRUE,
                       rotate     |-> rotate])

NoFault == [fault |-> "none", text |-> ""]

\* what BACKEND_CLASS(...) and be.write(...) do on one request
BackendOutcomes ==
    {NoFault,
     [fault |-> "open", text |-> "Device not found"],
     [fault |-> "write", text |-> "Broken pipe"]}

\* transmit with a second attempt after a failure
transmit_retry(be, data) ==
    IF be.fault = "none"
    THEN [caught |-> FALSE, message |-> "", opens |-> 1, writes |-> 1,
          sent |-> data, logs |-> {}]
    ELSE [caught |-> TRUE, message |-> be.text, opens |-> 2,
          writes |-> IF be.fault = "write" THEN 2 ELSE 0,
          sent |-> NoData, logs |-> {"warning"}]

\* lines 438-447 and 502-511: one try around opening the backend and writing
transmit(be, data) ==
    IF be.fault = "open"
    THEN [caught |-> TRUE, message |-> be.text, opens |-> 1, writes |-> 0,
          sent |-> NoData, logs |-> {"warning"}]
    ELSE IF be.fault = "write"
    THEN [caught |-> TRUE, message |-> be.text, opens |-> 1, writes |-> 1,
          sent |-> NoData, logs |-> {"warning"}]
    ELSE [caught |-> FALSE, message |-> "", opens |-> 1, writes |-> 1,
          sent |-> data, logs |-> {}]

----------------------------------------------------------------------------
(* the request handlers *)

Json(success, error, message, data) ==
    [type |-> "json", success |-> success, error |-> error, message |-> message,
     exc |-> "", data |-> data]

\* an exception that leaves the handler: bottle answers 500
Uncaught(e) ==
    [type |-> "uncaught", success |-> FALSE, error |-> "", message |-> "",
     exc |-> e, data |-> NoData]

Png(im) ==
    [type |-> "png", success |-> TRUE, error |-> "", message |-> "",
     exc |-> "", data |-> im]

\* what a handler did: its response, the context and image it built, the
\* backend calls it made, the raster the printer received, whether it saved
\* sample-out.png, what it logged, and /tmp/dmtx.png when it returned
Outcome(resp, r, render, tx, saved) ==
    [resp |-> resp, context |-> r, im |-> render.im, opens |-> tx.opens,
     writes |-> tx.writes, sent |-> tx.sent, saved |-> saved,
     logs |-> render.logs \cup tx.logs, file |-> render.file]

NotRendered(file) == Rendered(NoImage, file, {})

NotTransmitted ==
    [caught |-> FALSE, message |-> "", opens |-> 0, writes |-> 0, sent |-> NoData,
     logs |-> {}]

\* except LookupError as e: return_dict["error"] = e.msg. Neither LookupError
\* nor KeyError has an attribute msg, so the except clause raises AttributeError.
lookup_error_reply(r) == Uncaught("AttributeError")

\* lines 416-452 and 480-516, shared by print_grocy and print_text
print_label(r, render, be) ==
    LET ctx    == r.ctx
        raster == create_label(render.im, ctx, rotate_of(ctx))
        tx     == transmit(be, raster.v)
    IN  (    IF DEBUG /\ render.im = NoImage                   \* None.save
             THEN Outcome(Uncaught("AttributeError"), r, render, NotTransmitted, FALSE)
             ELSE IF raster.exc # ""
             THEN Outcome(Uncaught(raster.exc), r, render, NotTransmitted, DEBUG)
             ELSE IF DEBUG
             THEN Outcome(Json(TRUE, "", "", raster.v), r, render, NotTransmitted, TRUE)
             ELSE IF tx.caught
             THEN Outcome(Json(FALSE, "", tx.message, NoData), r, render, tx, FALSE)
             ELSE Outcome(Json(TRUE, "", "", NoData), r, render, tx, FALSE))

\* line 475
text_missing(ctx) == ctx.text = None

print_text_on(d, be, file) ==
    LET r == get_label_context(d)
    IN  IF r.exc # ""
        THEN Outcome(IF IsLookupError(r.exc) THEN lookup_error_reply(r)
                     ELSE Uncaught(r.exc), r, NotRendered(file), NotTransmitted, FALSE)
        ELSE IF text_missing(r.ctx)
        THEN Outcome(Json(FALSE, "Please provide the text for the label", "", NoData),
                     r, NotRendered(file), NotTransmitted, FALSE)
        ELSE LET render == create_label_im(r.ctx, file)
             IN  IF render.exc # ""
                 THEN Outcome(Uncaught(render.exc), r, render, NotTransmitted, FALSE)
                 ELSE print_label(r, render, be)

\* line 401
grocy_subject_missing(ctx) ==
    ctx.product = None /\ truthy(ctx.battery) /\ truthy(ctx.chore)

\* lines 407-409
code_1d == truthy(Code128) /\ Code128 = <<"1">>

print_grocy_on(d, be, file) ==
    LET r == get_label_context(d)
    IN  IF r.exc # ""
        THEN Outcome(IF IsLookupError(r.exc) THEN lookup_error_reply(r)
                     ELSE Uncaught(r.exc), r, NotRendered(file), NotTransmitted, FALSE)
        ELSE IF grocy_subject_missing(r.ctx)
        THEN Outcome(Json(FALSE, "Please provide the product/battery/chore for the label",
                          "", NoData),
                     r, NotRendered(file), NotTransmitted, FALSE)
        ELSE LET render == IF code_1d THEN create_label_grocy_1d(r.ctx, file)
                           ELSE create_label_grocy(r.ctx, file)
             IN  IF render.exc # ""
                 THEN Outcome(Uncaught(render.exc), r, render, NotTransmitted, FALSE)
                 ELSE print_label(r, render, be)

\* get_preview_image: no try around get_label_context; return_format only
\* selects how the same PNG is encoded
get_preview_image_on(d, be, file) ==
    LET r == get_label_context(d)
    IN  IF r.exc # ""
        THEN Outcome(Uncaught(r.exc), r, NotRendered(file), NotTransmitted, FALSE)
        ELSE LET render == create_label_im(r.ctx, file)
             IN  IF render.exc # ""
                 THEN Outcome(Uncaught(render.exc), r, render, NotTransmitted, FALSE)
                 ELSE Outcome(Png(render.im), r, render, NotTransmitted, FALSE)

----------------------------------------------------------------------------
(* the forms the model sends *)

Absent == <<"Absent">>

EmptyForm == [k \in {} |-> <<>>]

Field(key, value) == IF value = Absent THEN EmptyForm ELSE (key :> value)

Family_A == <<"A">>

Family_Z == <<"Z">>

Style_R == <<"R">>

Style_B == <<"B">>

A_R == <<"A", " ", "(", "R", ")">>

A_X == <<"A", " ", "(", "X", ")">>

Z_R == <<"Z", " ", "(", "R", ")">>

Code_1 == <<"g", "1">>

Code_2 == <<"g", "2">>

Hello == <<"h", "i">>

FontChoices == {Absent, A_R, A_X, Z_R, Family_A}

LabelSizeChoices ==
    {Absent, <<"6", "2", "r", "e", "d">>, <<"1", "7", "x", "5", "4">>,
     <<"5", "2", "x", "2", "9">>, <<"9", "9">>}

OrientationChoices == {Absent, rotated, <<"u", "p">>}

\* font and text vary
FontForms ==
    {Field("font_family", ff) @@ Field("text", t) :
        ff \in FontChoices, t \in {Absent, Hello}}

\* label size and orientation vary
SizeForms ==
    {Field("font_family", A_R) @@ Field("text", Hello) @@ Field("label_size", ls)
        @@ Field("orientation", o) :
        ls \in LabelSizeChoices, o \in OrientationChoices}

\* the numeric fields vary; percentages are multiples of 25
NumberForms ==
    {Field("font_family", A_R) @@ Field("text", Hello) @@ Field("font_size", fs)
        @@ Field("margin_top", mt) :
        fs \in {Absent, <<"2", "0">>, <<"4", "x">>},
        mt \in {Absent, <<"5", "0">>, <<"x">>}}
    \cup
    {Field("font_family", A_R) @@ Field("text", Hello) @@ Field(k, v) :
        k \in {"margin", "threshold", "margin_bottom", "margin_left", "margin_right"},
        v \in {<<"5", "0">>, <<"x">>}}
    \cup
    {Field("font_family", A_R) @@ Field("text", Hello)
        @@ Field("align", <<"l", "e", "f", "t">>) @@ Field("orientation", standard)}

PrintTextForms == FontForms \cup SizeForms \cup NumberForms

PreviewForms == FontForms \cup {f \in SizeForms : "orientation" \notin DOMAIN f}

GrocyForms ==
    {Field("font_family", A_R) @@ Field("grocycode", g) @@ Field("product", p)
        @@ Field("battery", b) @@ Field("chore", c) :
        g \in {Absent, Code_1, Code_2}, p \in {Absent, <<"P">>},
        b \in {Absent, <<"B">>}, c \in {Absent, <<"C">>}}
    \cup
    {Field("font_family", A_R) @@ Field("grocycode", Code_1) @@ Field("product", p)
        @@ Field("battery", b) @@ Field("due_date", <<"D">>) :
        p \in {Absent, <<"P">>}, b \in {Absent, <<"B">>}}
    \cup
    {Field("font_family", A_R) @@ Field("grocycode", Code_1) @@ Field("product", <<"P">>)
        @@ Field("label_size", ls) @@ Field("orientation", o) :
        ls \in {Absent, <<"1", "7", "x", "5", "4">>, <<"9", "9">>},
        o \in OrientationChoices}
    \cup
    {Field("font_family", ff) @@ Field("grocycode", Code_1) @@ Field("product", p) :
        ff \in {Absent, A_X}, p \in {<<>>, <<"P">>}}

----------------------------------------------------------------------------
(* start-up *)

Font(family, style) == [family |-> family, style |-> style]

\* CONFIG["LABEL"]["DEFAULT_FONTS"]: a list of fonts in the configuration file,
\* one font (a dict) once main() has selected it
FontList(items) == [type |-> "list", items |-> items]

FontDict(font) == [type |-> "dict", items |-> <<font>>]

FontNone == [type |-> "NoneType", items |-> <<>>]

\* values of DEFAULT_FONTS in the configuration file
ConfiguredDefaultFonts ==
    {FontNone, FontList(<<Font(Family_A, Style_R)>>),
     FontList(<<Font(Family_Z, Style_R), Font(Family_A, Style_B)>>),
     FontList(<<Font(Family_Z, Style_R)>>)}

\* results of get_fonts(): what is installed
InstalledFonts ==
    {EmptyForm,
     Family_A :> (Style_R :> "/fonts/A-R.ttf" @@ Style_B :> "/fonts/A-B.ttf")}

\* contents /tmp/dmtx.png can have
FileContents ==
    {NoFile} \cup {[format |-> fmt, code |-> g] :
                      fmt \in {"code128", "datamatrix"}, g \in {Code_1, Code_2}}

Idle ==
    [endpoint |-> "none", form |-> EmptyForm, fault |-> NoFault,
     before |-> NoFile,
     outcome |-> Outcome(Uncaught(""), ContextRaised("", ""), NotRendered(NoFile),
                         NotTransmitted, FALSE)]

Init ==
    /\ pc = "boot"
    /\ \E fonts \in ConfiguredDefaultFonts, level \in {10, 30} :
          config_json = [LABEL |-> [DEFAULT_FONTS |-> fonts],
                         SERVER |-> [LOGLEVEL |-> level]]
    /\ CONFIG = config_json
    /\ FONTS = EmptyForm
    /\ DEBUG = FALSE
    /\ Code128 \in {None, <<"1">>}
    /\ dmtx_png = NoFile
    /\ handled = 0
    /\ last = Idle

\* lines 612-619: the first configured font that FONTS holds, as a dict; the
\* configured value itself when FONTS holds none of them
select_default_font(configured, fonts) ==
    LET found == {i \in 1..Len(configured.items) :
                     /\ configured.items[i].family \in DOMAIN fonts
                     /\ configured.items[i].style
                            \in DOMAIN fonts[configured.items[i].family]}
    IN  IF found = {} THEN configured
        ELSE FontDict(configured.items[CHOOSE i \in found : \A j \in found : i <= j])

\* main() up to run(): LOGLEVEL decides DEBUG, get_fonts() fills FONTS, and the
\* default font is selected. (The command-line overrides replace configuration
\* values before this; the configuration the model starts from is their result.)
main ==
    /\ pc = "boot"
    /\ \E installed \in InstalledFonts :
        LET configured == CONFIG.LABEL.DEFAULT_FONTS
            selected   == select_default_font(configured, installed)
        IN  /\ DEBUG' = (CONFIG.SERVER.LOGLEVEL = 10)
            /\ FONTS' = installed
            /\ IF installed = EmptyForm
               THEN pc' = "exited" /\ CONFIG' = CONFIG              \* sys.exit(2)
               ELSE IF configured.type = "NoneType"
               THEN pc' = "exited" /\ CONFIG' = CONFIG              \* for font in None
               ELSE /\ pc' = "serving"
                    /\ \E family \in DOMAIN installed :
                       \E style \in DOMAIN installed[family] :
                          CONFIG' = [CONFIG EXCEPT !.LABEL.DEFAULT_FONTS =
                                        IF selected.type = "NoneType"   \* is None
                                        THEN FontDict(Font(family, style))
                                        ELSE selected]
    /\ UNCHANGED <<config_json, Code128, dmtx_png, handled, last>>

Handle(endpoint, d, be, file) ==
    CASE endpoint = "print_text" -> print_text_on(d, be, file)
      [] endpoint = "print_grocy" -> print_grocy_on(d, be, file)
      [] endpoint = "get_preview_image" -> get_preview_image_on(d, be, file)

\* the backend is the environment's only when the handler reaches it
Faults(endpoint, d) ==
    IF Handle(endpoint, d, NoFault, dmtx_png).opens > 0 THEN BackendOutcomes
    ELSE {NoFault}

\* the record of one request, handled from start to end
Served(endpoint, d, be) ==
    [endpoint |-> endpoint, form |-> d, fault |-> be, before |-> dmtx_png,
     outcome |-> Handle(endpoint, d, be, dmtx_png)]

\* run() of line 632 serves the requests one at a time
print_text ==
    /\ pc = "serving"
    /\ handled < MaxRequests
    /\ \E d \in PrintTextForms : \E be \in Faults("print_text", d) :
          /\ last' = Served("print_text", d, be)
          /\ dmtx_png' = last'.outcome.file
    /\ handled' = handled + 1
    /\ UNCHANGED <<pc, config_json, CONFIG, FONTS, DEBUG, Code128>>

print_grocy ==
    /\ pc = "serving"
    /\ handled < MaxRequests
    /\ \E d \in GrocyForms : \E be \in Faults("print_grocy", d) :
          /\ last' = Served("print_grocy", d, be)
          /\ dmtx_png' = last'.outcome.file
    /\ handled' = handled + 1
    /\ UNCHANGED <<pc, config_json, CONFIG, FONTS, DEBUG, Code128>>

get_preview_image ==
    /\ pc = "serving"
    /\ handled < MaxRequests
    /\ \E d \in PreviewForms :
          /\ last' = Served("get_preview_image", d, NoFault)
          /\ dmtx_png' = last'.outcome.file
    /\ handled' = handled + 1
    /\ UNCHANGED <<pc, config_json, CONFIG, FONTS, DEBUG, Code128>>

Next == main \/ print_text \/ print_grocy \/ get_preview_image

Spec == Init /\ [][Next]_vars

----------------------------------------------------------------------------
(* the claims *)

outcome == last.outcome

context == last.outcome.context

resp == last.outcome.resp

Built == last.endpoint # "none" /\ context.exc = ""

ParsedFamily(d) == strip(rpartition(d["font_family"], "(")[1])

ParsedStyle(d) == rstrip(rpartition(d["font_family"], "(")[3], {")"})

NamesUnknownFont(d) ==
    /\ "font_family" \in DOMAIN d
    /\ ~(/\ ParsedFamily(d) \in DOMAIN FONTS
         /\ ParsedStyle(d) \in DOMAIN FONTS[ParsedFamily(d)])

NamesUnknownLabelSize(d) ==
    "label_size" \in DOMAIN d /\ d["label_size"] \notin DOMAIN label_type_specs

\* C1: a request to /api/print/text, /api/print/grocy or /api/preview/text that
\* names a font not in FONTS or a label size not in label_type_specs, and whose
\* context construction fails with that lookup, is answered with JSON holding
\* success = false and an error string; no exception leaves the handler and
\* nothing is written to the printer.
C1_LookupFailureReported ==
    (/\ last.endpoint \in {"print_text", "print_grocy", "get_preview_image"}
     /\ NamesUnknownFont(last.form) \/ NamesUnknownLabelSize(last.form)
     /\ IsLookupError(context.exc))
    => (/\ resp.type = "json"
        /\ resp.success = FALSE
        /\ resp.error # ""
        /\ outcome.writes = 0)

\* C2: outside debug mode, when opening the backend or writing the raster
\* raises during print_text or print_grocy, the exception is caught and logged,
\* the response is JSON with success = false and message the exception's text,
\* and the backend is opened once and written at most once: no retry.
C2_TransportFailureReported ==
    (/\ last.endpoint \in {"print_text", "print_grocy"}
     /\ ~DEBUG
     /\ last.fault.fault # "none")
    => (/\ resp = Json(FALSE, "", last.fault.text, NoData)
        /\ "warning" \in outcome.logs
        /\ outcome.opens = 1
        /\ outcome.writes = (IF last.fault.fault = "write" THEN 1 ELSE 0)
        /\ outcome.sent = NoData)

\* a failed write on /api/print/grocy, reported
C2_Witness ==
    /\ last.endpoint = "print_grocy"
    /\ ~DEBUG
    /\ last.fault.fault = "write"
    /\ outcome.writes = 1
    /\ resp.message = "Broken pipe"
    /\ resp.success = FALSE

\* the defaults the claim documents, as a form would send them
DocumentedDefault ==
    ("font_size" :> <<"4", "0">>) @@ ("label_size" :> <<"5", "0">>)
    @@ ("margin" :> <<"1", "0">>) @@ ("threshold" :> <<"7", "0">>)
    @@ ("align" :> <<"c", "e", "n", "t", "e", "r">>)
    @@ ("orientation" :> <<"s", "t", "a", "n", "d", "a", "r", "d">>)
    @@ ("margin_top" :> <<"2", "5">>) @@ ("margin_bottom" :> <<"2", "5">>)
    @@ ("margin_left" :> <<"2", "5">>) @@ ("margin_right" :> <<"2", "5">>)

\* form field -> context entry, for the fields whose default is None
NoneByDefault ==
    ("text" :> "text") @@ ("grocycode" :> "grocycode") @@ ("product" :> "product")
    @@ ("due_date" :> "duedate") @@ ("battery" :> "battery") @@ ("chore" :> "chore")

\* C3: get_label_context gives every missing optional field its default: a
\* request that omits font_size, label_size, margin, threshold, align,
\* orientation or a margin_* gets the result of the same request sending the
\* documented default (40, "50", 10, 70, "center", "standard", 25 percent of the
\* font size), and an omitted text, grocycode, product, due_date, battery or
\* chore is None in the context.
C3_MissingFieldsTakeDefaults ==
    last.endpoint # "none" =>
        /\ \A k \in DOMAIN DocumentedDefault :
              k \notin DOMAIN last.form =>
                  get_label_context(last.form @@ (k :> DocumentedDefault[k])) = context
        /\ context.exc = "" =>
              /\ \A k \in DOMAIN NoneByDefault :
                    k \notin DOMAIN last.form => context.ctx[NoneByDefault[k]] = None
              /\ \A k \in {"margin_top", "margin_bottom", "margin_left", "margin_right"} :
                    k \notin DOMAIN last.form =>
                        context.ctx[k] = (context.ctx.font_size * 25) \div 100

\* a context built from a form that omits margin_top, label_size and product
C3_Witness ==
    /\ Built
    /\ DOMAIN last.form \cap {"margin_top", "label_size", "product", "threshold"} = {}
    /\ "font_size" \in DOMAIN last.form
    /\ context.ctx.font_size = 20
    /\ context.ctx.margin_top = 5
    /\ context.ctx.threshold = 70
    /\ context.ctx.label_size = <<"5", "0">>
    /\ context.ctx.product = None

Longer(dots) == IF dots[1] >= dots[2] THEN dots[1] ELSE dots[2]

Shorter(dots) == IF dots[1] >= dots[2] THEN dots[2] ELSE dots[1]

\* C4: for a known label size with printable dots (w, h) the context has
\* width = max(w, h) and height = min(w, h), so width >= height, unless the
\* orientation is "rotated", when width = min(w, h) and height = max(w, h); any
\* orientation other than "rotated" counts as "standard".
C4_DimensionsFollowOrientation ==
    Built =>
        LET dots == label_type_specs[context.ctx.label_size].dots_printable
        IN  IF context.ctx.orientation = <<"r", "o", "t", "a", "t", "e", "d">>
            THEN /\ context.ctx.width = Shorter(dots)
                 /\ context.ctx.height = Longer(dots)
            ELSE /\ context.ctx.width = Longer(dots)
                 /\ context.ctx.height = Shorter(dots)
                 /\ context.ctx.width >= context.ctx.height

\* label 17x54, printable dots (165, 566), rotated
C4_Witness ==
    /\ Built
    /\ context.ctx.label_size = <<"1", "7", "x", "5", "4">>
    /\ context.ctx.orientation = rotated
    /\ context.ctx.width = 165
    /\ context.ctx.height = 566

C6_MissingFontFallsBack ==
    (last.endpoint # "none" /\ "font_family" \notin DOMAIN last.form) =>
        /\ context.exc = ""
        /\ CONFIG.LABEL.DEFAULT_FONTS.type = "dict"
        /\ context.ctx.font_path =
              FONTS[CONFIG.LABEL.DEFAULT_FONTS.items[1].family]
                   [CONFIG.LABEL.DEFAULT_FONTS.items[1].style]

SubjectRequired == "Please provide the product/battery/chore for the label"

\* C7: print_grocy answers a request that provides none of product, battery and
\* chore with success = false and the error "Please provide the
\* product/battery/chore for the label", renders nothing and writes nothing;
\* a request that provides one of the three is not rejected so. (Read on the
\* requests for which get_label_context returns a context: the check follows it.)
C7_GrocySubjectRequired ==
    (last.endpoint = "print_grocy" /\ context.exc = "") =>
        IF DOMAIN last.form \cap {"product", "battery", "chore"} = {}
        THEN /\ resp = Json(FALSE, SubjectRequired, "", NoData)
             /\ outcome.im = NoImage
             /\ outcome.writes = 0
        ELSE resp.error # SubjectRequired

Installed(font) ==
    font.family \in DOMAIN FONTS /\ font.style \in DOMAIN FONTS[font.family]

\* C8: once main() has set up the fonts and the server runs, DEFAULT_FONTS is
\* one {family, style} pair that FONTS holds: the first configured default font
\* that is installed, or some installed font when none of them is.
C8_DefaultFontSelected ==
    pc = "serving" =>
        LET now  == CONFIG.LABEL.DEFAULT_FONTS
            was  == config_json.LABEL.DEFAULT_FONTS.items
            have == {i \in 1..Len(was) : Installed(was[i])}
        IN  /\ now.type = "dict"
            /\ Installed(now.items[1])
            /\ have # {} => now.items[1] = was[CHOOSE i \in have : \A j \in have : i <= j]

TextRequired == "Please provide the text for the label"

\* C9: print_text answers every request without the text field with
\* success = false and the error "Please provide the text for the label", and
\* renders no label, builds no raster and touches no backend.
C9_MissingTextRejected ==
    (last.endpoint = "print_text" /\ "text" \notin DOMAIN last.form) =>
        /\ resp = Json(FALSE, TextRequired, "", NoData)
        /\ outcome.im = NoImage
        /\ outcome.opens = 0
        /\ outcome.writes = 0
        /\ outcome.sent = NoData

====
